---- MODULE Spec2Model ----
(***************************************************************************)
(* Model of the De'Longhi Comfort API client (custom_components/           *)
(* delonghi_comfort/api.py): the session's token pair, the eight-step      *)
(* login, the token refresh with its fallback login, and the authenticated *)
(* GET/POST layer with its refresh-and-retry branch.                       *)
(*                                                                         *)
(* The client is asyncio code: a coroutine runs without interruption       *)
(* between two awaits of an HTTP exchange, so every action below is the    *)
(* code that runs from the arrival of one response up to the sending of    *)
(* the next request (or the return to the caller).  The upstream services  *)
(* are not modelled: every response is chosen nondeterministically.        *)
(***************************************************************************)
EXTENDS Integers, FiniteSets, Sequences, TLC

\* ------------------------------------------------------------------ bounds

\* Number of distinct token values the upstream can issue.
MaxToken == 2

\* Longest properties listing a poll's response carries.
MaxEntries == 2

\* Longest device list get_devices returns.
MaxDevices == 2

\* ------------------------------------------------------------------ values

\* Python None (api.py:41-42: the tokens before any login; JSON null).
None == 0
\* The empty string "" (a present but empty JSON string field): falsy in Python.
Empty == -1
\* A key that is missing from a JSON body (data["k"] raises KeyError).
Absent == -2

Tokens == 1..MaxToken

\* Values a JSON field of a token response can take.
FieldValues == Tokens \cup {None, Empty, Absent}

\* Python truthiness of a token value (`if self.access_token`, `not self.refresh_token`).
Truthy(t) == t \notin {None, Empty}

\* The calls that can be in flight on the one shared DeLonghiAPI instance.
Calls == {1, 2}

\* The caller that awaits each operation before it invokes the next one.
Sequential == {1}

ReadOps == {"get_devices", "get_device_properties"}

\* The write wrappers whose body is `try: ... except Exception: return False`.
WrapperOps == {"set_device_mode", "set_temperature_setpoint", "set_status",
               "set_silent_mode", "set_humidity_setpoint", "set_fan_speed",
               "set_device_property"}

WriteOps == WrapperOps \cup {"set_device_status"}

Ops == {"authenticate"} \cup ReadOps \cup WriteOps

\* What the device cloud can answer to a device request (aiohttp's view):
\*   ok_list / ok_obj / ok_null : status < 400, JSON body a list / another value / null
\*   bad_ctype : status < 400, response.json() raises ContentTypeError
\*               (a ClientResponseError whose status is the response's)
\*   bad_json  : status < 400, response.json() raises json.JSONDecodeError
\*   s401      : raise_for_status() raises ClientResponseError(status=401)
\*   s403, s500: raise_for_status() raises ClientResponseError with that status
\*   conn_err  : the request raises aiohttp.ClientConnectionError
\*   timeout   : the request raises asyncio.TimeoutError
DevResps == {"ok_list", "ok_obj", "ok_null", "bad_ctype", "bad_json",
             "s401", "s403", "s500", "conn_err", "timeout"}

OkResps == {"ok_list", "ok_obj", "ok_null"}

\* ------------------------------------------------- the datapoint requests

\* A value as the JSON encoder sees it: a number, or a string of digits.
Num(n) == [t |-> "num", v |-> n]

\* Python's str(x) of a number.
Str(x) == [t |-> "str", v |-> x.v]

\* The values callers pass to the write operations: one inside every documented
\* range but the fan speed's and the status's, one outside all of them.
InputValues == {Num(24), Num(40)}

\* The property names callers pass to set_device_property (climate.py:317-353).
InputProps == {"set_status", "set_power_level"}

\* The arguments of an operation that are not modelled (reads, authenticate).
NoArg == [prop |-> "none", val |-> [t |-> "none", v |-> 0]]

NoRequest == [prop |-> "none", value |-> [t |-> "none", v |-> 0]]

\* The arguments an operation can be invoked with.
ArgsOf(op) ==
    IF op = "set_device_property"
    THEN {[prop |-> p, val |-> x] : p \in InputProps, x \in InputValues}
    ELSE IF op \in WriteOps
    THEN {[prop |-> "none", val |-> x] : x \in InputValues}
    ELSE {NoArg}

\* The property named in the path `.../properties/<name>/datapoints.json`.
PropertyOf(op, arg) ==
    CASE op = "set_device_mode" -> "set_device_mode"
      [] op = "set_temperature_setpoint" -> "set_temp_setpoint"
      [] op = "set_status" -> "set_status"
      [] op = "set_silent_mode" -> "set_silent_function"
      [] op = "set_humidity_setpoint" -> "humidity_setpoint"
      [] op = "set_fan_speed" -> "set_int_fan_speed"
      [] op = "set_device_status" -> "set_device_status"
      [] op = "set_device_property" -> arg.prop
      [] OTHER -> "none"

\* Variant of SentValue: the temperature setpoint is clamped to its documented range.
SentValueClamped(op, x) ==
    IF op \in {"set_fan_speed", "set_device_status"} THEN Str(x)
    ELSE IF op = "set_temperature_setpoint" /\ x.v > 32 THEN Num(32)
    ELSE x

\* The value put in `{"datapoint": {"value": ...}}`: the argument itself, but
\* str(argument) in set_fan_speed (api.py:421) and set_device_status (api.py:491).
SentValue(op, x) ==
    IF op \in {"set_fan_speed", "set_device_status"} THEN Str(x) ELSE x

\* The POST a write operation hands to _post_request.
RequestOf(op, arg) ==
    IF op \in WriteOps
    THEN [prop |-> PropertyOf(op, arg), value |-> SentValue(op, arg.val)]
    ELSE NoRequest

\* ------------------------------------------------- the login's context values

\* The local variables of _get_new_access_token that carry a value from one
\* step's response to a later step's request.
ContextNames ==
    {"context", "ucid", "gmid", "gmid_ticket", "login_token", "user_uid",
     "user_uid_signature", "user_signature_timestamp", "signature", "code",
     "idp_token"}

\* The context values assigned from the response of step s.
Produced(s) ==
    CASE s = 1 -> {"context"}
      [] s = 2 -> {"ucid", "gmid", "gmid_ticket"}
      [] s = 3 -> {"login_token"}
      [] s = 4 -> {"user_uid", "user_uid_signature", "user_signature_timestamp"}
      [] s = 5 -> {"signature"}
      [] s = 6 -> {"code"}
      [] s = 7 -> {"idp_token"}
      [] OTHER -> {}

\* Variant of Consumed: the token exchange of step 8 sends the authorization
\* code again instead of the identity token.
ConsumedCodeTwice(s) ==
    CASE s = 3 -> {"gmid", "ucid"}
      [] s = 4 -> {"login_token", "gmid", "ucid"}
      [] s = 5 -> {"context", "user_uid", "user_uid_signature",
                   "user_signature_timestamp"}
      [] s = 6 -> {"context", "login_token", "user_uid", "signature", "gmid_ticket"}
      [] s = 7 -> {"code"}
      [] s = 8 -> {"code"}
      [] OTHER -> {}

\* The context values the request of step s carries.
Consumed(s) ==
    CASE s = 3 -> {"gmid", "ucid"}
      [] s = 4 -> {"login_token", "gmid", "ucid"}
      [] s = 5 -> {"context", "user_uid", "user_uid_signature",
                   "user_signature_timestamp"}
      [] s = 6 -> {"context", "login_token", "user_uid", "signature", "gmid_ticket"}
      [] s = 7 -> {"code"}
      [] s = 8 -> {"idp_token"}
      [] OTHER -> {}

\* The bound local variables are kept as pairs <<name, attempt>>: the attempt is
\* the login attempt of the call (1, 2) whose response the value came from.
\* No local variable is bound:
NoContext == {}

\* Nothing of the context has been sent.
NoUses == {}

\* The names bound in held.
Bound(held) == {h[1] : h \in held}

\* The attempt the value held under n came from (0: n is not bound).
OriginOf(held, n) ==
    IF n \in Bound(held) THEN (CHOOSE h \in held : h[1] = n)[2] ELSE 0

\* Variant of ContextAfter: a value is extracted only when none is held, and
\* what is held stays when the function is left.
ContextCached(held, s, att) ==
    held \cup {<<n, att>> : n \in Produced(s) \ Bound(held)}

\* The local variables after the response of step s of attempt att was
\* processed; s = 0 stands for entering or leaving the function, when the
\* frame is new or dropped.
ContextAfter(held, s, att) ==
    IF s = 0 THEN NoContext
    ELSE {h \in held : h[1] \notin Produced(s)} \cup {<<n, att>> : n \in Produced(s)}

\* The record of what was sent, after the request of step s went out with the
\* values of held: triples <<name, step, attempt of origin>>.
UsesAfter(uses, held, s) ==
    uses \cup {<<n, s, OriginOf(held, n)>> : n \in Consumed(s)}

VARIABLES
    access_token,   \* self.access_token
    refresh_token,  \* self.refresh_token
    call,           \* per call: the coroutine's position, locals and history
    entity,         \* the entity command handler in progress
    coordinator,    \* the DeLonghiCoordinator of one device: its poll and snapshot
    flow            \* the config flow step or the entry setup in progress

vars == <<access_token, refresh_token, call, entity, coordinator, flow>>

\* A call that has not started: no operation, nothing sent.  sound marks a call
\* during which the upstream accepts the credentials and answers correctly.
NewCall(op) ==
    [op |-> op, pc |-> "idle", via |-> "none", step |-> 0,
     sent1 |-> Absent, sent2 |-> Absent,
     nReq |-> 0, nRefresh |-> 0, nRefreshReq |-> 0, nLogin |-> 0, nAuth |-> 0,
     r1 |-> "none", r2 |-> "none", result |-> "pending",
     refreshed |-> Absent,
     preAcc |-> Absent, preRef |-> Absent, issAcc |-> Absent, issRef |-> Absent,
     rfHeld |-> Absent, rfKind |-> "none", rfAcc |-> Absent, rfRef |-> Absent,
     loginOut |-> "none", failStep |-> 0, ctx |-> None, code |-> None,
     outs |-> << >>, nStepReq |-> 0, afterLogin |-> Absent,
     arg |-> NoArg, req |-> NoRequest,
     held |-> NoContext, uses |-> NoUses, sound |-> FALSE]

\* No entity command is being handled; the coordinator's snapshot has no
\* get_device_status and no refresh has been requested from it.  seen is the
\* status the handler read from the snapshot (Absent: it read none), sent the
\* writes it has sent, as pairs <<operation, value>>.
NoCommand ==
    [h |-> "none", pc |-> "idle", op |-> "none", mode |-> "none", status |-> None,
     w1 |-> "none", w2 |-> "none", refresh |-> FALSE, raised |-> FALSE,
     pending |-> FALSE, seen |-> Absent, sent |-> << >>]

\* The empty name-to-value mapping (Python's {}).
NoData == [n \in {} |-> None]

\* The coordinator before its first poll: nothing fetched, no snapshot.
NoPoll ==
    [pc |-> "idle", result |-> "none", response |-> << >>,
     data |-> NoData, prev |-> NoData, raised |-> FALSE]

\* No config flow step and no entry setup is running; nothing was created.
NoFlow ==
    [kind |-> "none", pc |-> "idle", auth |-> "none", devices |-> "none",
     ndev |-> 0, created |-> 0, returned |-> "none", stored |-> FALSE,
     forwarded |-> FALSE, entry |-> FALSE, error |-> "none"]

Init ==
    /\ access_token = None
    /\ refresh_token = None
    /\ call = [c \in Calls |-> NewCall("none")]
    /\ entity = NoCommand
    /\ coordinator = NoPoll
    /\ flow = NoFlow


\* ------------------------------------------------- the request layer, pure

\* Variant of IsUnauthorized: a 403 is taken as an expired token too.
IsUnauthorizedOrForbidden(resp) == resp \in {"s401", "s403"}

\* api.py:442/471: `if e.status == 401`.
IsUnauthorized(resp) == resp = "s401"

\* Variant of Handles401: the 401 handler also encloses the retry (a retry made
\* by re-entering the request function).
Handles401OnRetryToo(pcv) == TRUE

\* api.py:437-450: the try whose handlers refresh on 401 encloses the first
\* request only; the retry is sent from inside the handler.
Handles401(pcv) == pcv = "req1"

\* What _get_request/_post_request does with a response to the request it sent at
\* position pcv: return the decoded body, enter the refresh branch, return None,
\* or let the exception leave the function (an exception raised inside the
\* `except ClientResponseError` handler is not caught by its sibling handler).
RequestOutcome(pcv, resp) ==
    IF resp \in OkResps THEN "body"
    ELSE IF Handles401(pcv) /\ IsUnauthorized(resp) THEN "refresh"
    ELSE IF pcv = "req1" THEN "none"
    ELSE "raise"

\* The exception class a failed exchange raises.
ExcOf(resp) ==
    CASE resp \in {"s401", "s403", "s500", "bad_ctype"} -> "ClientResponseError"
      [] resp = "conn_err" -> "ClientConnectionError"
      [] resp = "timeout" -> "TimeoutError"
      [] resp = "bad_json" -> "JSONDecodeError"
      [] OTHER -> "none"

\* aiohttp.ClientError and its subclasses.
IsClientError(exc) == exc \in {"ClientResponseError", "ClientConnectionError"}

\* Variant of Catches: the public operation has no except clause.
CatchesNothing(op, exc) == FALSE

\* The except clause of the public operation: `except Exception` everywhere but
\* set_device_status, which has `except aiohttp.ClientError` (api.py:493).
Catches(op, exc) == IF op = "set_device_status" THEN IsClientError(exc) ELSE TRUE

\* Variant of NoneResult: a read returns the request function's None as it is.
NoneResultPassedThrough(op) == IF op \in ReadOps THEN "none_value" ELSE "false"

\* The operation's result when the request function returned None.
NoneResult(op) == IF op \in ReadOps THEN "empty_list" ELSE "false"

\* The operation's result when the request function returned the decoded body:
\* reads `response if isinstance(response, list) else []`, writes
\* `response is not None`.
BodyResult(op, resp) ==
    IF op \in ReadOps
    THEN (IF resp = "ok_list" THEN "list" ELSE "empty_list")
    ELSE (IF resp = "ok_null" THEN "false" ELSE "true")

\* The operation's result when the request function raised exc.
RaisedResult(op, exc) ==
    IF Catches(op, exc)
    THEN (IF op \in ReadOps THEN "empty_list" ELSE "false")
    ELSE "raise"

\* What a read returns when its lazy authenticate() failed (api.py:325, 338).
AuthFailResult(op) == IF op = "get_device_properties" THEN "empty_dict" ELSE "empty_list"

\* api.py:58: authenticate() reports `self.access_token is not None`.
AuthOk(tok) == tok # None

\* Variant of RetryAllowed: the retry is sent whatever the refresh returned.
RetryAlways(tok) == TRUE

\* Variant of RetryAllowed: the call gives up after the refresh, leaving the
\* retry to the next call.
RetryNever(tok) == FALSE

\* api.py:445/474: `if self.access_token:` guards the retry.
RetryAllowed(tok) == Truthy(tok)

\* Variant of HoldsRefreshToken: the refresh request is sent without the check.
HoldsAnything(t) == TRUE

\* api.py:292: `if not self.refresh_token` sends the refresh to the login.
HoldsRefreshToken(t) == Truthy(t)

\* Variant of RefreshFailureAction: a non-200 refresh response gives up.
RefreshFailureGivesUp(kind) == IF kind = "non200" THEN "fail" ELSE "login"

\* api.py:314-319: what refresh_access_token does when the refresh request did
\* not produce a token (kind: non200, transport, bad_body, nokey): in every
\* case it awaits _get_new_access_token.
RefreshFailureAction(kind) == "login"

\* Variant of RetryToken: the retry reuses the headers of the first request.
RetryTokenStale(old, new) == old

\* api.py:446/475: the retry's Authorization header is rebuilt from the token the
\* refresh returned (old is the header of the first request).
RetryToken(old, new) == new

\* Variant of RefreshedRefreshToken: the body's field is stored unconditionally.
RefreshTokenOverwritten(stored, rf) == IF rf = Absent THEN None ELSE rf

\* api.py:309-310: the stored refresh_token after a 200 refresh response whose
\* body's refresh_token field is rf (data.get: a missing key reads as None).
RefreshedRefreshToken(stored, rf) ==
    LET got == IF rf = Absent THEN None ELSE rf
    IN  IF Truthy(got) THEN got ELSE stored

\* --------------------------------------------------- continuations of a call

Finish(r, res) == [r EXCEPT !.pc = "done", !.result = res]

\* Variant of SendFirst: the Authorization header is built without the token.
SendFirstWithoutToken(r, tok) ==
    [r EXCEPT !.pc = "req1", !.sent1 = None, !.nReq = @ + 1]

\* api.py:431-438 / 460-467: build the headers from self.access_token and send.
SendFirst(r, tok) == [r EXCEPT !.pc = "req1", !.sent1 = tok, !.nReq = @ + 1]

\* api.py:446-447 / 475-476.
SendRetry(r, tok) ==
    [r EXCEPT !.pc = "req2", !.sent2 = RetryToken(r.sent1, tok), !.nReq = @ + 1]

\* api.py:70-82: a login attempt starts by sending the step-1 request.
BeginLogin(r, via) ==
    [r EXCEPT !.pc = "login", !.via = via, !.step = 1, !.nLogin = @ + 1,
              !.nAuth = IF via = "authenticate" THEN @ + 1 ELSE @,
              !.preAcc = access_token, !.preRef = refresh_token,
              !.issAcc = Absent, !.issRef = Absent,
              !.loginOut = "none", !.failStep = 0, !.ctx = None, !.code = None,
              !.outs = << >>, !.nStepReq = 1,
              !.held = ContextAfter(@, 0, r.nLogin + 1), !.uses = NoUses]

\* Variant of AfterRefresh: the token the refresh returned is kept in a local
\* of the call and not stored on the shared instance.
AfterRefreshKeepsTokenLocal(c, r, tok, newRef) ==
    LET r1 == [r EXCEPT !.refreshed = tok] IN
    /\ access_token' = access_token
    /\ refresh_token' = newRef
    /\ call' = [call EXCEPT ![c] = IF RetryAllowed(tok) THEN SendRetry(r1, tok)
                                   ELSE Finish(r1, NoneResult(r.op))]

\* api.py:444-450 / 473-481: refresh_access_token returned tok, having left
\* newRef in self.refresh_token; the caller stores tok and retries if truthy.
AfterRefresh(c, r, tok, newRef) ==
    LET r1 == [r EXCEPT !.refreshed = tok] IN
    /\ access_token' = tok
    /\ refresh_token' = newRef
    /\ call' = [call EXCEPT ![c] = IF RetryAllowed(tok) THEN SendRetry(r1, tok)
                                   ELSE Finish(r1, NoneResult(r.op))]

\* Variant of AfterAuthenticate: a read whose lazy login failed logs in again
\* instead of returning.
AfterAuthenticateRetriesLogin(c, r, tok, newRef) ==
    /\ access_token' = tok
    /\ refresh_token' = newRef
    /\ call' = [call EXCEPT ![c] =
                  IF r.op = "authenticate"
                  THEN Finish(r, IF AuthOk(tok) THEN "true" ELSE "false")
                  ELSE IF AuthOk(tok) THEN SendFirst(r, tok)
                  ELSE BeginLogin(r, "authenticate")]

\* api.py:57-58 and 323-328 / 336-341: _get_new_access_token returned tok to
\* authenticate(), which stores it; a read then goes on to its request.
AfterAuthenticate(c, r, tok, newRef) ==
    /\ access_token' = tok
    /\ refresh_token' = newRef
    /\ call' = [call EXCEPT ![c] =
                  IF r.op = "authenticate"
                  THEN Finish(r, IF AuthOk(tok) THEN "true" ELSE "false")
                  ELSE IF AuthOk(tok) THEN SendFirst(r, tok)
                  ELSE Finish(r, AuthFailResult(r.op))]

\* _get_new_access_token returned tok: control is back in whoever awaited it.
\* The record of the step responses is kept for an attempt that failed; of an
\* attempt that issued tokens only the tokens and what was sent are kept.
LoginDone(c, r, tok, newRef) ==
    LET r1 == [r EXCEPT !.step = 0, !.ctx = None, !.code = None,
                        !.held = ContextAfter(@, 0, r.nLogin),
                        !.outs = IF r.loginOut = "ok" THEN << >> ELSE @,
                        !.nStepReq = IF r.loginOut = "ok" THEN 0 ELSE @] IN
    IF r.via = "refresh" THEN AfterRefresh(c, r1, tok, newRef)
    ELSE AfterAuthenticate(c, r1, tok, newRef)

\* api.py:290-302: refresh_access_token is entered; without a refresh_token it
\* delegates to the login, otherwise it sends the refresh request.
StartRefresh(c, r) ==
    LET r1 == [r EXCEPT !.nRefresh = @ + 1, !.rfHeld = refresh_token] IN
    /\ call' = [call EXCEPT ![c] =
                  IF ~HoldsRefreshToken(refresh_token) THEN BeginLogin(r1, "refresh")
                  ELSE [r1 EXCEPT !.pc = "refresh", !.nRefreshReq = @ + 1]]
    /\ UNCHANGED <<access_token, refresh_token>>

\* Variant of RefreshFailed: a failed refresh request is sent once more before
\* the login is tried.
RefreshFailedRetries(c, r, kind) ==
    IF r.nRefreshReq < 2
    THEN /\ call' = [call EXCEPT ![c] = [r EXCEPT !.nRefreshReq = @ + 1]]
         /\ UNCHANGED <<access_token, refresh_token>>
    ELSE /\ call' = [call EXCEPT ![c] = BeginLogin(r, "refresh")]
         /\ UNCHANGED <<access_token, refresh_token>>

\* api.py:314-319: the refresh request did not produce a token.
RefreshFailed(c, r, kind) ==
    IF RefreshFailureAction(kind) = "login"
    THEN /\ call' = [call EXCEPT ![c] = BeginLogin(r, "refresh")]
         /\ UNCHANGED <<access_token, refresh_token>>
    ELSE AfterRefresh(c, r, None, refresh_token)

\* ------------------------------------------------------------- the login

\* How the response of login step s can turn out:
\*   ok        : every value the step extracts is there
\*   transport : the exchange raises (connection error, timeout)
\*   parse     : the body is not JSON, a JSON key is missing, the Location
\*               header is missing (step 1, 6), the marker is missing (step 5)
\*   rejected  : step 3's body has statusCode # 200
\*   noparam   : step 1 / 6: a Location header without the query parameter;
\*               get_query_param returns None and the flow goes on
StepOutcomes(s) ==
    {"ok", "transport", "parse"}
        \cup (IF s = 3 THEN {"rejected"} ELSE {})
        \cup (IF s \in {1, 6} THEN {"noparam"} ELSE {})

\* Variant of StepContinues: step 3's statusCode is not looked at.
StepContinuesDespiteStatus(out) == out \in {"ok", "noparam", "rejected"}

\* Variant of StepContinues: a value that cannot be extracted is taken as empty.
StepContinuesWithoutValue(out) == out \in {"ok", "noparam", "parse"}

\* api.py:83, 177-181, 225, 249 and the handler at 286-288: whether the flow
\* goes on to the next step after this outcome.
StepContinues(out) == out \in {"ok", "noparam"}

\* api.py:283-284: step 8's body carries the fields a (access_token) and rf
\* (refresh_token).  `self.refresh_token = ayla_data["refresh_token"]` runs
\* first, then `return ayla_data["access_token"]`; a KeyError in either ends the
\* attempt with None through the handler at 286-288.
Step8Refresh(stored, a, rf) == IF rf = Absent THEN stored ELSE rf

Step8Return(a, rf) == IF rf = Absent \/ a = Absent THEN None ELSE a

\* The response to the request of the login step in flight arrives, the
\* upstream answering steps 1..7 with an outcome of Outs, step 8 with a failure
\* of Fails8 or with a body whose <<access_token, refresh_token>> fields are a
\* pair of Issued.
LoginStep(c, Outs, Fails8, Issued) ==
    LET r == call[c] IN
    /\ r.pc = "login"
    /\ \/ /\ r.step < 8
          /\ \E out \in StepOutcomes(r.step) \cap Outs :
               IF StepContinues(out)
               THEN /\ call' = [call EXCEPT ![c] =
                          [r EXCEPT !.step = @ + 1,
                                    !.outs = Append(@, out),
                                    !.nStepReq = @ + 1,
                                    !.held = ContextAfter(@, r.step, r.nLogin),
                                    !.uses = UsesAfter(@,
                                                 ContextAfter(r.held, r.step, r.nLogin),
                                                 r.step + 1),
                                    !.ctx = IF r.step = 1
                                            THEN (IF out = "ok" THEN 1 ELSE None)
                                            ELSE @,
                                    !.code = IF r.step = 6
                                             THEN (IF out = "ok" THEN 1 ELSE None)
                                             ELSE @]]
                    /\ UNCHANGED <<access_token, refresh_token>>
               ELSE LoginDone(c, [r EXCEPT !.loginOut = out, !.failStep = r.step,
                                           !.outs = Append(@, out)],
                              None, refresh_token)
       \/ /\ r.step = 8
          /\ \E out \in Fails8 :
               LoginDone(c, [r EXCEPT !.loginOut = out, !.failStep = 8,
                                      !.outs = Append(@, out)],
                         None, refresh_token)
       \/ /\ r.step = 8
          /\ \E iss \in Issued :
               LET a == iss[1]
                   rf == iss[2]
               IN  LoginDone(c,
                         [r EXCEPT !.issAcc = a, !.issRef = rf,
                                   !.loginOut = IF rf = Absent \/ a = Absent
                                                THEN "parse" ELSE "ok",
                                   !.failStep = IF rf = Absent \/ a = Absent
                                                THEN 8 ELSE 0,
                                   !.outs = Append(@, IF rf = Absent \/ a = Absent
                                                      THEN "parse" ELSE "ok")],
                         Step8Return(a, rf),
                         Step8Refresh(refresh_token, a, rf))

\* Every outcome a login step can have.
AllOutcomes == {"ok", "transport", "parse", "rejected", "noparam"}

\* The response to the request of the login step in flight arrives; the
\* upstream may answer anything.
LoginResp(c) ==
    LoginStep(c, AllOutcomes, {"transport", "parse"}, FieldValues \X FieldValues)

\* ------------------------------------------------------------ the refresh

\* The response of the refresh endpoint arrives (api.py:303-319): a failure of
\* Kinds, a 200 body without the access_token key whose refresh_token field is
\* of NoKeyRefs, or a 200 body whose <<access_token, refresh_token>> fields are
\* a pair of Issued.
RefreshStep(c, Kinds, NoKeyRefs, Issued) ==
    LET r == call[c] IN
    /\ r.pc = "refresh"
    /\ \/ \E kind \in Kinds :
            RefreshFailed(c, [r EXCEPT !.rfKind = kind], kind)
       \/ \E rf \in NoKeyRefs :
            \* 200, but data["access_token"] raises KeyError
            RefreshFailed(c, [r EXCEPT !.rfKind = "nokey", !.rfRef = rf], "nokey")
       \/ \E iss \in Issued :
            LET a == iss[1]
                rf == iss[2]
            IN  AfterRefresh(c,
                         [r EXCEPT !.rfKind = "ok", !.rfAcc = a, !.rfRef = rf],
                         a, RefreshedRefreshToken(refresh_token, rf))

\* The response of the refresh endpoint arrives; the upstream may answer anything.
RefreshResp(c) ==
    RefreshStep(c, {"non200", "transport", "bad_body"}, FieldValues,
                (FieldValues \ {Absent}) \X FieldValues)

\* ------------------------------------------------------ the device requests

\* The response to a device request arrives (api.py:438-453 / 467-484 and the
\* handlers of the public operation around it).
DeviceStep(c, pcv, Resps) ==
    LET r == call[c] IN
    /\ r.pc = pcv
    /\ \E resp \in Resps :
         LET r1 == IF pcv = "req1" THEN [r EXCEPT !.r1 = resp]
                   ELSE [r EXCEPT !.r2 = resp]
             out == RequestOutcome(pcv, resp)
         IN  IF out = "refresh" THEN StartRefresh(c, r1)
             ELSE /\ call' = [call EXCEPT ![c] =
                        Finish(r1, CASE out = "body" -> BodyResult(r.op, resp)
                                     [] out = "none" -> NoneResult(r.op)
                                     [] OTHER -> RaisedResult(r.op, ExcOf(resp)))]
                  /\ UNCHANGED <<access_token, refresh_token>>

\* The response to a device request arrives; the upstream may answer anything.
DeviceResp(c, pcv) == DeviceStep(c, pcv, DevResps)

Req1Resp(c) == DeviceResp(c, "req1")

Req2Resp(c) == DeviceResp(c, "req2")

\* --------------------------------------------------------- the operations

\* The access token issued to the authenticate() call that the caller completed
\* with success just before invoking the next operation (Absent if the previous
\* operation was anything else); kept for get_device_properties calls.
IssuedJustBefore(prev) ==
    IF prev.op = "authenticate" /\ prev.pc = "done" /\ prev.result = "true"
    THEN prev.issAcc ELSE Absent

\* The coroutine of operation op up to its first await (api.py:55-57, 323-331,
\* 336-343 and the write wrappers): authenticate and a read without a token
\* start the login, everything else sends its device request.
Started(afterLogin, op, arg) ==
    LET r == [NewCall(op) EXCEPT
                 !.afterLogin = IF op = "get_device_properties"
                                THEN afterLogin ELSE Absent,
                 !.arg = arg, !.req = RequestOf(op, arg)] IN
    IF op = "authenticate" THEN BeginLogin(r, "authenticate")
    ELSE IF op \in ReadOps /\ ~Truthy(access_token)
    THEN BeginLogin(r, "authenticate")
    ELSE SendFirst(r, access_token)

\* A caller invokes an operation of the client on the shared instance.
Call(c, op, arg) ==
    /\ call[c].pc = "idle"
    /\ call' = [call EXCEPT ![c] = Started(call[c].afterLogin, op, arg)]
    /\ UNCHANGED <<access_token, refresh_token>>

\* The operation's coroutine returns its result to the caller, who may go on
\* with another operation.
Return(c) ==
    /\ call[c].pc = "done"
    /\ call' = [call EXCEPT ![c] =
                  [NewCall("none") EXCEPT !.afterLogin = IssuedJustBefore(call[c])]]
    /\ UNCHANGED <<access_token, refresh_token>>

Invoke(c) == \E op \in Ops : \E arg \in ArgsOf(op) : Call(c, op, arg)

Next ==
    \E c \in Sequential :
        \/ Invoke(c) /\ UNCHANGED <<entity, coordinator, flow>>
        \/ Return(c) /\ UNCHANGED <<entity, coordinator, flow>>
        \/ LoginResp(c) /\ UNCHANGED <<entity, coordinator, flow>>
        \/ RefreshResp(c) /\ UNCHANGED <<entity, coordinator, flow>>
        \/ Req1Resp(c) /\ UNCHANGED <<entity, coordinator, flow>>
        \/ Req2Resp(c) /\ UNCHANGED <<entity, coordinator, flow>>

Spec == Init /\ [][Next]_vars

\* ------------------------------------------- concurrent callers of one client

\* The operations the integration runs concurrently on its one DeLonghiAPI
\* instance: a coordinator polls get_device_properties (coordinator.py:46)
\* while an entity command writes (select.py:97).
ConcOps(c) ==
    IF c \in Sequential THEN {"get_device_properties"} ELSE {"set_device_mode"}

\* The arguments considered for the concurrent callers.
ConcArgs(op) == {arg \in ArgsOf(op) : arg.val \in {NoArg.val, Num(24)}}

\* The upstream behaviours considered for the concurrent callers: a login
\* succeeds or is rejected at step 3 and issues its two tokens as a pair of
\* non-empty strings, a refresh answers 200 with one new access token only
\* (the last of Tokens) or answers another status, and a device request is
\* answered with the listing or 401 (the retry with the listing).
ConcOutcomes == {"ok", "rejected"}

ConcIssued == {<<t, t>> : t \in Tokens}

ConcRefreshed == {<<MaxToken, Absent>>}

ConcInvoke(c) == \E op \in ConcOps(c) : \E arg \in ConcArgs(op) : Call(c, op, arg)

ConcLoginResp(c) == LoginStep(c, ConcOutcomes, {}, ConcIssued)

ConcRefreshResp(c) == RefreshStep(c, {"non200"}, {}, ConcRefreshed)

ConcReq1Resp(c) == DeviceStep(c, "req1", {"ok_list", "s401"})

ConcReq2Resp(c) == DeviceStep(c, "req2", {"ok_list"})

\* The coordinators' polls and the entity commands run as separate tasks of one
\* event loop on the shared instance (__init__.py:40, 52-57): any call may take
\* its next step whenever its response arrives.
ConcNext ==
    \E c \in Calls :
        \/ ConcInvoke(c) /\ UNCHANGED <<entity, coordinator, flow>>
        \/ Return(c) /\ UNCHANGED <<entity, coordinator, flow>>
        \/ ConcLoginResp(c) /\ UNCHANGED <<entity, coordinator, flow>>
        \/ ConcRefreshResp(c) /\ UNCHANGED <<entity, coordinator, flow>>
        \/ ConcReq1Resp(c) /\ UNCHANGED <<entity, coordinator, flow>>
        \/ ConcReq2Resp(c) /\ UNCHANGED <<entity, coordinator, flow>>

SpecConc == Init /\ [][ConcNext]_vars

\* ------------------------------------------- the entity command handlers

\* The command handlers of the entity platforms that write to the device.
Handlers ==
    {"climate.set_temperature", "climate.set_hvac_mode", "climate.set_fan_mode",
     "climate.turn_on", "climate.turn_off",
     "heater.set_hvac_mode", "heater.turn_on", "heater.turn_off",
     "heater.set_preset_mode", "heater.set_fan_mode", "heater.set_temperature",
     "number.temp_setpoint", "number.humidity_setpoint",
     "select.select_option", "switch.turn_on", "switch.turn_off"}

\* The handlers that return without a write when their input is missing or
\* not one of the known options (climate.py:166, 204, 331, 351; select.py:93).
Validating ==
    {"climate.set_temperature", "climate.set_fan_mode", "heater.set_preset_mode",
     "heater.set_temperature", "select.select_option"}

\* The hvac modes of the climate entity (climate.py:74-79).
HvacModes == {"off", "cool", "dry", "fan_only"}

\* coordinator.data.get("get_device_status"): 1 = on, 2 = off, None = not polled.
Statuses == {1, 2, None}

\* The client operation a handler awaits (its only one, but for
\* climate.set_hvac_mode, which is given by HvacStart).
WriteOf(h) ==
    CASE h = "climate.set_temperature" -> "set_temperature_setpoint"
      [] h = "climate.set_fan_mode" -> "set_fan_speed"
      [] h \in {"climate.turn_on", "climate.turn_off"} -> "set_device_status"
      [] h \in {"heater.set_hvac_mode", "heater.turn_on", "heater.turn_off",
                "heater.set_preset_mode", "heater.set_fan_mode",
                "heater.set_temperature"} -> "set_device_property"
      [] h = "number.temp_setpoint" -> "set_temperature_setpoint"
      [] h = "number.humidity_setpoint" -> "set_humidity_setpoint"
      [] h = "select.select_option" -> "set_device_mode"
      [] h \in {"switch.turn_on", "switch.turn_off"} -> "set_device_status"
      [] OTHER -> "none"

\* What a write operation can hand to the handler that awaits it: true, false,
\* or an exception its except clause does not catch.
WriteResults(op) ==
    {"true", "false"}
        \cup (IF \E resp \in DevResps : ExcOf(resp) # "none" /\ ~Catches(op, ExcOf(resp))
              THEN {"raise"} ELSE {})

\* climate.py:23-29: HVAC_MODE_TO_DEVICE.
DeviceMode(mode) ==
    CASE mode = "cool" -> 1
      [] mode = "dry" -> 2
      [] mode = "fan_only" -> 3
      [] OTHER -> None

\* The value a handler writes where the handler fixes it (climate.py:219, 226);
\* None stands for a value taken from the command's input.
ValueOf(h) ==
    CASE h = "climate.turn_on" -> 1
      [] h = "climate.turn_off" -> 2
      [] OTHER -> None

\* climate.py:174-192: async_set_hvac_mode up to its first await.  OFF writes
\* the status 2; another mode first turns the device on when the polled status
\* is 2, and otherwise goes straight to the mode write.
HvacStart(mode, status) ==
    [NoCommand EXCEPT !.h = "climate.set_hvac_mode", !.mode = mode,
                      !.pc = IF mode = "off" \/ status = 2 THEN "write1" ELSE "write2",
                      !.op = IF mode = "off" \/ status = 2 THEN "set_device_status"
                             ELSE "set_device_mode",
                      !.seen = IF mode = "off" THEN Absent ELSE status,
                      !.sent = IF mode = "off" THEN << <<"set_device_status", 2>> >>
                               ELSE IF status = 2
                               THEN << <<"set_device_status", 1>> >>
                               ELSE << <<"set_device_mode", DeviceMode(mode)>> >>]

\* Home Assistant calls a command handler of an entity.
Command ==
    /\ entity.pc = "idle"
    /\ \E h \in Handlers, valid \in BOOLEAN, mode \in HvacModes :
         LET e == IF h = "climate.set_hvac_mode" THEN HvacStart(mode, entity.status)
                  ELSE IF h \in Validating /\ ~valid
                  THEN [NoCommand EXCEPT !.h = h, !.pc = "done"]
                  ELSE [NoCommand EXCEPT !.h = h, !.pc = "write1", !.op = WriteOf(h),
                                         !.sent = << <<WriteOf(h), ValueOf(h)>> >>]
         IN  entity' = [e EXCEPT !.status = entity.status, !.pending = entity.pending]
    /\ UNCHANGED <<access_token, refresh_token, call, coordinator, flow>>

\* Variant of AfterWrite: the refresh is requested when any write of the
\* command succeeded.
AfterWriteRefreshesOnAnySuccess(e, res) ==
    IF res = "raise" THEN [e EXCEPT !.pc = "done", !.raised = TRUE]
    ELSE IF e.pc = "write1" /\ e.h = "climate.set_hvac_mode" /\ e.mode # "off"
    THEN (IF res = "true"
          THEN [e EXCEPT !.w1 = res, !.pc = "write2", !.op = "set_device_mode",
                         !.sent = Append(@, <<"set_device_mode", DeviceMode(e.mode)>>)]
          ELSE [e EXCEPT !.w1 = res, !.pc = "done"])
    ELSE IF e.pc = "write1"
    THEN [e EXCEPT !.w1 = res, !.pc = "done", !.refresh = (res = "true")]
    ELSE [e EXCEPT !.w2 = res, !.pc = "done",
                   !.refresh = (res = "true" \/ e.w1 = "true")]

\* Variant of AfterWrite: the mode write follows the turn-on write whatever the
\* turn-on write returned.
AfterWriteIgnoresTurnOn(e, res) ==
    IF res = "raise" THEN [e EXCEPT !.pc = "done", !.raised = TRUE]
    ELSE IF e.pc = "write1" /\ e.h = "climate.set_hvac_mode" /\ e.mode # "off"
    THEN [e EXCEPT !.w1 = res, !.pc = "write2", !.op = "set_device_mode",
                   !.sent = Append(@, <<"set_device_mode", DeviceMode(e.mode)>>)]
    ELSE IF e.pc = "write1"
    THEN [e EXCEPT !.w1 = res, !.pc = "done", !.refresh = (res = "true")]
    ELSE [e EXCEPT !.w2 = res, !.pc = "done", !.refresh = (res = "true")]

\* The handler after the write it awaited ended with res.  An exception leaves
\* the handler.  The turn-on write of climate.set_hvac_mode (climate.py:184-187)
\* returns on failure and goes on to the mode write on success; every other
\* write is the handler's last: async_request_refresh on true, a log line on
\* false.
AfterWrite(e, res) ==
    IF res = "raise" THEN [e EXCEPT !.pc = "done", !.raised = TRUE]
    ELSE IF e.pc = "write1" /\ e.h = "climate.set_hvac_mode" /\ e.mode # "off"
    THEN (IF res = "true"
          THEN [e EXCEPT !.w1 = res, !.pc = "write2", !.op = "set_device_mode",
                         !.sent = Append(@, <<"set_device_mode", DeviceMode(e.mode)>>)]
          ELSE [e EXCEPT !.w1 = res, !.pc = "done"])
    ELSE IF e.pc = "write1"
    THEN [e EXCEPT !.w1 = res, !.pc = "done", !.refresh = (res = "true")]
    ELSE [e EXCEPT !.w2 = res, !.pc = "done", !.refresh = (res = "true")]

\* The write operation the handler awaits returns or raises.
WriteReturns ==
    /\ entity.pc \in {"write1", "write2"}
    /\ \E res \in WriteResults(entity.op) : entity' = AfterWrite(entity, res)
    /\ UNCHANGED <<access_token, refresh_token, call, coordinator, flow>>

\* The handler returns to Home Assistant; a refresh it requested is now owed by
\* the coordinator.
CommandReturns ==
    /\ entity.pc = "done"
    /\ entity' = [NoCommand EXCEPT !.status = entity.status,
                                   !.pending = entity.pending \/ entity.refresh]
    /\ UNCHANGED <<access_token, refresh_token, call, coordinator, flow>>

\* coordinator.py:43-58: the coordinator polls, on its interval or because a
\* refresh was requested, and publishes a new snapshot.
Poll ==
    /\ \E st \in Statuses : entity' = [entity EXCEPT !.status = st, !.pending = FALSE]
    /\ UNCHANGED <<access_token, refresh_token, call, coordinator, flow>>

EntityNext == Command \/ WriteReturns \/ CommandReturns \/ Poll

SpecEntity == Init /\ [][EntityNext]_vars

\* ------------------------------------------- a call on a sound upstream

\* What a sound upstream answers.  A login with the entered credentials passes
\* every step and issues two tokens.  A refresh with the refresh token the
\* session holds is answered 200 with a new access token (and maybe a new
\* refresh token) when that token is still good and with another status when
\* it is stale.  A device request is answered with the listing when its token
\* is good and with 401 when it is stale; a token issued during this call is
\* good.
SoundIssued == Tokens \X Tokens

SoundRefreshed == Tokens \X (Tokens \cup {Absent})

SoundResps(r, pcv) ==
    IF pcv = "req1" /\ r.nLogin = 0 THEN {"ok_list", "s401"} ELSE {"ok_list"}

\* The session is in whatever state earlier calls left it in; the poll calls
\* get_device_properties and from now on the upstream is sound.
SoundCall(c) ==
    /\ call[c].pc = "idle"
    /\ call' = [call EXCEPT ![c] =
                  [Started(Absent, "get_device_properties", NoArg)
                       EXCEPT !.sound = TRUE]]
    /\ UNCHANGED <<access_token, refresh_token>>

SoundLoginResp(c) ==
    call[c].sound /\ LoginStep(c, {"ok"}, {}, SoundIssued)

SoundRefreshResp(c) ==
    call[c].sound /\ RefreshStep(c, {"non200"}, {}, SoundRefreshed)

SoundReq1Resp(c) ==
    call[c].sound /\ DeviceStep(c, "req1", SoundResps(call[c], "req1"))

SoundReq2Resp(c) ==
    call[c].sound /\ DeviceStep(c, "req2", SoundResps(call[c], "req2"))

\* Any sequence of calls answered in any way, each followed or not by a call
\* on a sound upstream.
RecoverNext ==
    \E c \in Sequential :
        \/ Invoke(c) /\ UNCHANGED <<entity, coordinator, flow>>
        \/ Return(c) /\ UNCHANGED <<entity, coordinator, flow>>
        \/ ~call[c].sound /\ LoginResp(c) /\ UNCHANGED <<entity, coordinator, flow>>
        \/ ~call[c].sound /\ RefreshResp(c) /\ UNCHANGED <<entity, coordinator, flow>>
        \/ ~call[c].sound /\ Req1Resp(c) /\ UNCHANGED <<entity, coordinator, flow>>
        \/ ~call[c].sound /\ Req2Resp(c) /\ UNCHANGED <<entity, coordinator, flow>>
        \/ SoundCall(c) /\ UNCHANGED <<entity, coordinator, flow>>
        \/ SoundLoginResp(c) /\ UNCHANGED <<entity, coordinator, flow>>
        \/ SoundRefreshResp(c) /\ UNCHANGED <<entity, coordinator, flow>>
        \/ SoundReq1Resp(c) /\ UNCHANGED <<entity, coordinator, flow>>
        \/ SoundReq2Resp(c) /\ UNCHANGED <<entity, coordinator, flow>>

SpecRecover == Init /\ [][RecoverNext]_vars

\* ------------------------------------------------- the coordinator's poll

\* The property names and values of the listings considered.
PropNames == {"get_device_status", "temp_setpoint"}

PropValues == {1, 2}

\* An entry of the JSON list `apiv1/dsns/<dsn>/properties.json` answers with:
\*   property : {"property": {"name": n, "value": v}}
\*   other    : an object without the key "property"
\*   noname   : {"property": {...}} whose object lacks "name" or "value"
\*   scalar   : a number or null, on which `"property" in prop` raises TypeError
Entries ==
    {[kind |-> "property", name |-> n, value |-> v] : n \in PropNames, v \in PropValues}
        \cup {[kind |-> k, name |-> "none", value |-> None] :
                  k \in {"other", "noname", "scalar"}}

Listings == UNION {[1..k -> Entries] : k \in 0..MaxEntries}

\* The listing behind a result of get_device_properties: the response's list
\* when the operation returned it, nothing for [] and {}.
BodiesOf(result) == IF result = "list" THEN Listings ELSE {<< >>}

\* What `for prop in properties` iterates over: the elements of the list; the
\* keys of the dict {}, of which there are none.
Iterated(result, body) == IF result = "list" THEN body ELSE << >>

\* data[n] = v.
Put(data, n, v) == [m \in DOMAIN data \cup {n} |-> IF m = n THEN v ELSE data[m]]

\* Variant of FreshData: the poll updates the mapping it published before.
FreshDataKeepsPrevious(published) == published

\* coordinator.py:49: `data = {}`, whatever was published before.
FreshData(published) == NoData

\* coordinator.py:50-53: the loop over the listing from its k-th entry on, data
\* being what the earlier entries put in.  A scalar or an incomplete property
\* object raises (TypeError, KeyError).
RECURSIVE Parsed(_, _, _)
Parsed(props, k, data) ==
    IF k > Len(props) THEN [raised |-> FALSE, data |-> data]
    ELSE IF props[k].kind \in {"scalar", "noname"}
    THEN [raised |-> TRUE, data |-> NoData]
    ELSE IF props[k].kind = "property"
    THEN Parsed(props, k + 1, Put(data, props[k].name, props[k].value))
    ELSE Parsed(props, k + 1, data)

\* Variant of UpdateFailed: a poll that fetched nothing is reported as failed.
UpdateFailedOnEmpty(result, parsed) == result # "list" \/ parsed.raised

\* coordinator.py:45-56: any exception inside the try, from the awaited
\* operation or from the loop, is re-raised as UpdateFailed.
UpdateFailed(result, parsed) == result = "raise" \/ parsed.raised

\* coordinator.py:43-46: _async_update_data up to its await: the coordinator
\* calls get_device_properties on the shared client.
PollStarts ==
    /\ coordinator.pc = "idle"
    /\ \E c \in Sequential : Call(c, "get_device_properties", NoArg)
    /\ coordinator' = [coordinator EXCEPT !.pc = "polling", !.result = "none",
                                          !.response = << >>, !.prev = NoData]
    /\ UNCHANGED <<entity, flow>>

\* coordinator.py:46-58: get_device_properties returns and the snapshot is
\* built from what it returned; on UpdateFailed the coordinator keeps what it
\* published before.
UpdateData ==
    /\ coordinator.pc = "polling"
    /\ \E c \in Sequential :
         /\ Return(c)
         /\ \E body \in BodiesOf(call[c].result) :
              LET result == call[c].result
                  parsed == Parsed(Iterated(result, body), 1,
                                   FreshData(coordinator.data))
                  failed == UpdateFailed(result, parsed)
              IN  coordinator' =
                      [pc |-> "idle", result |-> result, response |-> body,
                       prev |-> coordinator.data,
                       data |-> IF failed THEN coordinator.data ELSE parsed.data,
                       raised |-> failed]
    /\ UNCHANGED <<entity, flow>>

\* The token bodies considered for the calls Home Assistant's side awaits (the
\* coordinator's poll, the entry setup, the config flow): a login answers step 8
\* with both fields alike (a token, null, "" or both missing), a refresh
\* answers 200 with an access_token of any kind and no refresh_token, or
\* without either.  Every failure of every request is considered.
HostIssued == {<<t, t>> : t \in FieldValues}

HostRefreshed == {<<t, Absent>> : t \in FieldValues \ {Absent}}

\* A response to a request of the call in progress arrives.
HostLoginResp ==
    \E c \in Sequential :
        /\ LoginStep(c, AllOutcomes, {"transport", "parse"}, HostIssued)
        /\ UNCHANGED <<entity, coordinator, flow>>

HostRefreshResp ==
    \E c \in Sequential :
        /\ RefreshStep(c, {"non200", "transport", "bad_body"}, {Absent}, HostRefreshed)
        /\ UNCHANGED <<entity, coordinator, flow>>

HostReq1Resp == \E c \in Sequential : Req1Resp(c) /\ UNCHANGED <<entity, coordinator, flow>>

HostReq2Resp == \E c \in Sequential : Req2Resp(c) /\ UNCHANGED <<entity, coordinator, flow>>

PollNext ==
    \/ PollStarts
    \/ UpdateData
    \/ HostLoginResp
    \/ HostRefreshResp
    \/ HostReq1Resp
    \/ HostReq2Resp

SpecPoll == Init /\ [][PollNext]_vars

\* ------------------------------------------- the caller under fair scheduling

\* A response to the request the call has in flight arrives, or the exchange raises.
Responds == HostLoginResp \/ HostRefreshResp \/ HostReq1Resp \/ HostReq2Resp

\* One caller invoking any operation after any other.
LiveNext ==
    \/ \E c \in Sequential : Invoke(c) /\ UNCHANGED <<entity, coordinator, flow>>
    \/ \E c \in Sequential : Return(c) /\ UNCHANGED <<entity, coordinator, flow>>
    \/ Responds

\* Every HTTP request eventually returns a response or raises, and the event
\* loop resumes the coroutine that awaits it.
SpecLive == Init /\ [][LiveNext]_vars /\ WF_vars(Responds)

\* ------------------------------------- the entry setup and the config flow

\* Variant of FlowError: a failed authentication is reported like an exception.
FlowErrorCannotConnect(res) ==
    CASE res = "true" -> "none"
      [] OTHER -> "cannot_connect"

\* config_flow.py:45-65: the error the configuration form shows after
\* authenticate() ended with res ("none": the flow goes on to the device list).
FlowError(res) ==
    CASE res = "true" -> "none"
      [] res = "false" -> "invalid_auth"
      [] OTHER -> "cannot_connect"

\* Variant of HasDevices: an empty device list is set up like any other.
HasDevicesOrNone(n) == TRUE

\* __init__.py:47 / config_flow.py:48: `if devices` on the list get_devices
\* returned, n being its length.
HasDevices(n) == n > 0

\* The lengths the list behind a result of get_devices can have.
LengthsOf(result) == IF result = "list" THEN 0..MaxDevices ELSE {0}

\* __init__.py:38 / config_flow.py:44, then 41 / 46: a new DeLonghiAPI is made
\* (both tokens None, api.py:41-42) and authenticate() is awaited on it.
FlowStarts ==
    /\ flow.pc = "idle"
    /\ \E kind \in {"setup", "config"}, c \in Sequential :
         /\ call[c].pc = "idle"
         /\ access_token' = None
         /\ refresh_token' = None
         /\ call' = [call EXCEPT ![c] =
                       [Started(Absent, "authenticate", NoArg)
                            EXCEPT !.preAcc = None, !.preRef = None]]
         /\ flow' = [NoFlow EXCEPT !.kind = kind, !.pc = "auth"]
    /\ UNCHANGED <<entity, coordinator>>

\* The flow is over: what it returned or raised is with Home Assistant.
Ended(f, returned) == [f EXCEPT !.pc = "done", !.returned = returned]

\* __init__.py:41-46 / config_flow.py:46-47, 63-64: authenticate() returned.
\* False ends the setup with False and the config step with the form and
\* invalid_auth; True goes on to get_devices().
AuthReturns ==
    /\ flow.pc = "auth"
    /\ \E c \in Sequential :
         LET res == call[c].result
             f == [flow EXCEPT !.auth = res] IN
         /\ call[c].pc = "done"
         /\ IF res = "true"
            THEN /\ call' = [call EXCEPT ![c] = Started(Absent, "get_devices", NoArg)]
                 /\ flow' = [f EXCEPT !.pc = "devices"]
            ELSE /\ call' = [call EXCEPT ![c] = NewCall("none")]
                 /\ flow' = IF flow.kind = "setup" THEN Ended(f, "false")
                            ELSE Ended([f EXCEPT !.error = FlowError(res)], "form")
    /\ UNCHANGED <<access_token, refresh_token, entity, coordinator>>

\* __init__.py:46-59: get_devices() returned to the setup.  Without devices
\* the setup returns False.  Otherwise the loop starts: a device entry that
\* lacks "device", "dsn" or "oem_model" raises KeyError out of the setup; for a
\* complete one a coordinator is made and its first refresh awaited.
SetupDevicesReturn ==
    /\ flow.pc = "devices" /\ flow.kind = "setup"
    /\ \E c \in Sequential :
         /\ call[c].pc = "done"
         /\ \E n \in LengthsOf(call[c].result), complete \in BOOLEAN :
              LET f == [flow EXCEPT !.devices = call[c].result, !.ndev = n] IN
              IF ~HasDevices(n)
              THEN /\ call' = [call EXCEPT ![c] = NewCall("none")]
                   /\ flow' = Ended(f, "false")
              ELSE IF n = 0 \/ ~complete
              THEN \* no iteration of the loop, or a KeyError in its first one
                   /\ call' = [call EXCEPT ![c] = NewCall("none")]
                   /\ flow' = IF n = 0
                              THEN Ended([f EXCEPT !.stored = TRUE, !.forwarded = TRUE],
                                         "true")
                              ELSE Ended(f, "raise")
              ELSE /\ call' = [call EXCEPT ![c] =
                                 Started(Absent, "get_device_properties", NoArg)]
                   /\ flow' = [f EXCEPT !.pc = "refresh"]
    /\ UNCHANGED <<access_token, refresh_token, entity, coordinator>>

\* __init__.py:58-80: the first refresh of the coordinator just made is over
\* (it raises ConfigEntryNotReady when _async_update_data raised UpdateFailed).
\* The loop goes on with the next device; after the last one the setup stores
\* the client and the coordinators under the entry id, forwards the platform
\* setups and returns True.
FirstRefreshReturns ==
    /\ flow.pc = "refresh"
    /\ \E c \in Sequential :
         /\ call[c].pc = "done"
         /\ \E body \in BodiesOf(call[c].result), complete \in BOOLEAN :
              LET result == call[c].result
                  failed == UpdateFailed(result,
                                Parsed(Iterated(result, body), 1, FreshData(NoData)))
                  f == [flow EXCEPT !.created = @ + 1] IN
              IF failed
              THEN /\ call' = [call EXCEPT ![c] = NewCall("none")]
                   /\ flow' = Ended(flow, "raise")
              ELSE IF f.created = f.ndev
              THEN /\ call' = [call EXCEPT ![c] = NewCall("none")]
                   /\ flow' = Ended([f EXCEPT !.stored = TRUE, !.forwarded = TRUE],
                                    "true")
              ELSE IF ~complete
              THEN /\ call' = [call EXCEPT ![c] = NewCall("none")]
                   /\ flow' = Ended(f, "raise")
              ELSE /\ call' = [call EXCEPT ![c] =
                                 Started(Absent, "get_device_properties", NoArg)]
                   /\ flow' = f
    /\ UNCHANGED <<access_token, refresh_token, entity, coordinator>>

\* config_flow.py:47-62, 65-71: get_devices() returned to the config step.
\* With devices the entry is created, unless the unique id is configured
\* already: _abort_if_unique_id_configured raises AbortFlow inside the try,
\* whose `except Exception` turns it into the form with cannot_connect.
ConfigDevicesReturn ==
    /\ flow.pc = "devices" /\ flow.kind = "config"
    /\ \E c \in Sequential :
         /\ call[c].pc = "done"
         /\ \E n \in LengthsOf(call[c].result), configured \in BOOLEAN :
              LET f == [flow EXCEPT !.devices = call[c].result, !.ndev = n] IN
              /\ call' = [call EXCEPT ![c] = NewCall("none")]
              /\ flow' = IF ~HasDevices(n)
                         THEN Ended([f EXCEPT !.error = "no_devices"], "form")
                         ELSE IF configured
                         THEN Ended([f EXCEPT !.error = "cannot_connect"], "form")
                         ELSE Ended([f EXCEPT !.entry = TRUE], "create_entry")
    /\ UNCHANGED <<access_token, refresh_token, entity, coordinator>>

\* Home Assistant has the flow's result; another setup or config step can run.
FlowReturns ==
    /\ flow.pc = "done"
    /\ flow' = NoFlow
    /\ UNCHANGED <<access_token, refresh_token, call, entity, coordinator>>

FlowNext ==
    \/ FlowStarts
    \/ AuthReturns
    \/ SetupDevicesReturn
    \/ FirstRefreshReturns
    \/ ConfigDevicesReturn
    \/ FlowReturns
    \/ HostLoginResp
    \/ HostRefreshResp
    \/ HostReq1Resp
    \/ HostReq2Resp

SpecFlow == Init /\ [][FlowNext]_vars

TypeOK ==
    /\ access_token \in Tokens \cup {None, Empty}
    /\ refresh_token \in Tokens \cup {None, Empty}
    /\ \A c \in Calls :
         /\ call[c].pc \in {"idle", "login", "refresh", "req1", "req2", "done"}
         /\ call[c].op \in Ops \cup {"none"}

\* ============================================================ properties

\* The value one login attempt returned, read off the attempt's last response.
LoginResultOf(r) == IF r.loginOut = "ok" THEN r.issAcc ELSE None

\* The logins a call started from inside refresh_access_token.
FallbackLogins(r) == r.nLogin - r.nAuth

\* The ways a refresh request fails to produce a token.
RefreshFailKinds == {"non200", "transport", "bad_body", "nokey"}

\* A success response as the operation understands it: a JSON list for a read,
\* any JSON value but null for a write.
Accepted(op, resp) ==
    IF op \in ReadOps THEN resp = "ok_list" ELSE resp \in {"ok_list", "ok_obj"}

\* The empty/false result of the operation.
EmptyResult(op) == IF op \in ReadOps THEN "empty_list" ELSE "false"

\* C1: one logical device call enters refresh_access_token at most once and
\* sends the device request at most twice, whatever the upstream answers.
C1_RetryBounded ==
    \A c \in Calls : call[c].nRefresh <= 1 /\ call[c].nReq <= 2

\* C1 witness: a call ended after a 401 on its retry, with one refresh and two requests.
C1_Witness ==
    \E c \in Calls :
        /\ call[c].pc = "done"
        /\ call[c].r1 = "s401" /\ call[c].r2 = "s401"
        /\ call[c].nRefresh = 1 /\ call[c].nReq = 2

\* C2: a call answered 401 and then, on the retry, with a success response
\* succeeds (the listing for a read, true for a write); the retry carried the
\* token the refresh obtained from the upstream; refresh was entered once.
C2_RetrySucceeds ==
    \A c \in Calls :
        LET r == call[c] IN
        (r.pc = "done" /\ r.r1 = "s401" /\ Accepted(r.op, r.r2)) =>
            /\ r.result = IF r.op \in ReadOps THEN "list" ELSE "true"
            /\ r.sent2 = IF r.rfKind = "ok" THEN r.rfAcc ELSE r.issAcc
            /\ r.nRefresh = 1

\* C2 witness: a read got 401, refreshed to another token, and its retry returned the listing.
C2_Witness ==
    \E c \in Calls :
        /\ call[c].pc = "done" /\ call[c].op = "get_device_properties"
        /\ call[c].r1 = "s401" /\ call[c].r2 = "ok_list"
        /\ call[c].result = "list"
        /\ call[c].sent2 # call[c].sent1 /\ call[c].sent2 = call[c].rfAcc

\* C3: a call answered 401, refreshed successfully and answered 401 again
\* returns the empty/false result, does not raise, and entered refresh once.
C3_SecondUnauthorizedDegrades ==
    \A c \in Calls :
        LET r == call[c] IN
        (r.pc = "done" /\ r.r1 = "s401" /\ r.r2 = "s401") =>
            /\ r.result = EmptyResult(r.op)
            /\ r.nRefresh = 1

\* C3 witness: set_device_status returned false after 401, refresh, 401.
C3_Witness ==
    \E c \in Calls :
        /\ call[c].pc = "done" /\ call[c].op = "set_device_status"
        /\ call[c].r1 = "s401" /\ call[c].r2 = "s401"
        /\ call[c].refreshed \in Tokens
        /\ call[c].result = "false"

\* C4: when the refresh (fallback login included) yields no token after a 401,
\* no second device request is sent and the call returns the empty/false result.
C4_NoRetryWithoutToken ==
    \A c \in Calls :
        LET r == call[c] IN
        (r.r1 = "s401" /\ r.refreshed \in {None, Empty}) =>
            /\ r.pc = "done"
            /\ r.nReq = 1 /\ r.sent2 = Absent /\ r.r2 = "none"
            /\ r.result = EmptyResult(r.op)

\* C4 witness: the refresh request failed, the fallback login failed, the call ended.
C4_Witness ==
    \E c \in Calls :
        /\ call[c].pc = "done" /\ call[c].r1 = "s401"
        /\ call[c].rfKind = "non200" /\ FallbackLogins(call[c]) = 1
        /\ call[c].refreshed = None /\ call[c].nReq = 1

\* C5: a 200 refresh response with a new access_token leaves the stored
\* refresh_token as it was when the body has no refresh_token, and stores the
\* body's refresh_token when it has one.
C5_RefreshTokenKeptOrReplaced ==
    [][\A c \in Calls :
         (/\ call[c].pc = "refresh"
          /\ call'[c].rfKind = "ok"
          /\ call'[c].rfAcc \in Tokens) =>
            /\ call'[c].rfRef = Absent => refresh_token' = refresh_token
            /\ call'[c].rfRef \in Tokens => refresh_token' = call'[c].rfRef]_vars

\* C5 witness: a refresh answered with a new access_token and no refresh_token,
\* the session holding the new access_token and the refresh_token it sent.
C5_Witness ==
    \E c \in Calls :
        /\ call[c].rfKind = "ok" /\ call[c].rfRef = Absent
        /\ call[c].rfAcc \in Tokens /\ call[c].rfAcc # call[c].sent1
        /\ access_token = call[c].rfAcc
        /\ refresh_token = call[c].rfHeld /\ refresh_token \in Tokens

\* C6: entered without a refresh_token, refresh_access_token sends nothing to
\* the refresh endpoint, runs one login and returns what that login returned.
C6_NoRefreshTokenDelegates ==
    \A c \in Calls :
        LET r == call[c] IN
        (r.nRefresh = 1 /\ r.rfHeld \in {None, Empty}) =>
            /\ r.nRefreshReq = 0
            /\ FallbackLogins(r) = 1
            /\ \/ r.pc = "login" /\ r.via = "refresh"
               \/ r.pc \in {"req2", "done"} /\ r.refreshed = LoginResultOf(r)

\* C6 witness: a refresh without a refresh_token got its token from the login.
C6_Witness ==
    \E c \in Calls :
        /\ call[c].nRefresh = 1 /\ call[c].rfHeld = None
        /\ call[c].pc = "req2" /\ call[c].refreshed \in Tokens
        /\ call[c].refreshed = call[c].issAcc

\* C7: when the refresh request is answered non-200, or 200 without
\* access_token, or raises, refresh_access_token starts one login at step 1 and
\* returns what that login returned.
C7_RefreshFallsBackToLogin ==
    /\ [](\A c \in Calls :
            LET r == call[c] IN
            r.rfKind \in RefreshFailKinds =>
                /\ r.nRefreshReq = 1
                /\ FallbackLogins(r) = 1
                /\ \/ r.pc = "login" /\ r.via = "refresh"
                   \/ /\ r.pc \in {"req2", "done"}
                      /\ r.loginOut # "none"
                      /\ r.refreshed = LoginResultOf(r))
    /\ [][\A c \in Calls :
            (call[c].pc = "refresh" /\ call'[c].rfKind \in RefreshFailKinds) =>
                /\ call'[c].pc = "login" /\ call'[c].step = 1
                /\ call'[c].nLogin = call[c].nLogin + 1]_vars

\* C7 witness: the refresh response had no access_token and the fallback login
\* supplied the token of the retry.
C7_Witness ==
    \E c \in Calls :
        /\ call[c].rfKind = "nokey" /\ call[c].rfHeld \in Tokens
        /\ call[c].pc = "req2" /\ call[c].loginOut = "ok"
        /\ call[c].sent2 = call[c].issAcc

\* C8: when a login attempt ends, the stored access_token and refresh_token are
\* both the pair this attempt was issued or both what they were before it.
C8_LoginAtomic ==
    [][\A c \in Calls :
         (call[c].pc = "login" /\ call'[c].pc # "login") =>
            \/ /\ call'[c].loginOut = "ok"
               /\ access_token' = call'[c].issAcc
               /\ refresh_token' = call'[c].issRef
            \/ /\ access_token' = call[c].preAcc
               /\ refresh_token' = call[c].preRef]_vars

\* C9: no write operation raises to its caller.
C9_WritesNeverRaise ==
    \A c \in Calls : call[c].op \in WriteOps => call[c].result # "raise"

\* C10: get_devices returns the listing when the upstream's last answer was
\* one, and an empty list, without raising, on every other path.
C10_GetDevicesEmptyOnFailure ==
    \A c \in Calls :
        LET r == call[c] IN
        (r.op = "get_devices" /\ r.pc = "done") =>
            r.result = IF r.r1 = "ok_list" \/ r.r2 = "ok_list"
                       THEN "list" ELSE "empty_list"

\* C10 witness: get_devices returned [] after a 401, a refresh and a retry that timed out.
C10_Witness ==
    \E c \in Calls :
        /\ call[c].op = "get_devices" /\ call[c].pc = "done"
        /\ call[c].r1 = "s401" /\ call[c].r2 = "timeout"
        /\ call[c].result = "empty_list"

\* The results by which an operation reports that its login failed.
LoginFailedResults == {"false", "empty_list", "empty_dict"}

\* The outcome of step s of the call's latest login attempt ("none": no response yet).
OutcomeOf(r, s) == IF Len(r.outs) >= s THEN r.outs[s] ELSE "none"

\* C11: get_device_properties returns the listing when the upstream's last
\* answer was one, and the empty list, without raising, on every other path,
\* the failed lazy authentication included.
C11_PropertiesEmptyListOnFailure ==
    \A c \in Calls :
        LET r == call[c] IN
        (r.op = "get_device_properties" /\ r.pc = "done") =>
            r.result = IF r.r1 = "ok_list" \/ r.r2 = "ok_list"
                       THEN "list" ELSE "empty_list"

C13_MissingMarkerStops ==
    \A c \in Calls :
        LET r == call[c] IN
        OutcomeOf(r, 5) = "parse" =>
            /\ r.nStepReq = 5 /\ r.pc = "done"
            /\ r.loginOut = "parse" /\ r.failStep = 5
            /\ r.result \in LoginFailedResults

\* C13 witness: authenticate() returned false after five requests, the fifth
\* answered without the marker.
C13_Witness ==
    \E c \in Calls :
        /\ call[c].op = "authenticate" /\ call[c].pc = "done"
        /\ OutcomeOf(call[c], 5) = "parse"
        /\ call[c].nStepReq = 5 /\ call[c].result = "false"

\* C14: a step-1 response without a Location header, or whose Location has no
\* `context` parameter, ends the attempt: no request of steps 2..8 is sent.
C14_BootstrapFails ==
    \A c \in Calls :
        LET r == call[c] IN
        OutcomeOf(r, 1) \in {"parse", "noparam"} =>
            r.nStepReq = 1 /\ r.pc # "login"

\* C15: when authenticate() returns true the stored access_token is a
\* non-empty token.
C15_AuthenticatedHasToken ==
    \A c \in Calls :
        (call[c].op = "authenticate" /\ call[c].pc = "done"
            /\ call[c].result = "true") => access_token \in Tokens

\* C16: a refresh_token, once held, is never lost: every step leaves the
\* session holding one.
C16_RefreshTokenRetained ==
    [][Truthy(refresh_token) => Truthy(refresh_token')]_vars

\* C17: a get_device_properties call that directly follows a successful login
\* sends its request with the access token step 8 of that login issued, runs no
\* login of its own, and returns the listing without a refresh when the
\* upstream answers that request with one.
C17_IssuedTokenIsSent ==
    \A c \in Calls :
        LET r == call[c] IN
        (r.op = "get_device_properties" /\ r.afterLogin \in Tokens) =>
            /\ r.nAuth = 0
            /\ r.sent1 = r.afterLogin
            /\ r.r1 = "ok_list" =>
                 /\ r.pc = "done" /\ r.result = "list"
                 /\ r.nRefresh = 0 /\ r.nReq = 1

\* C17 witness: the call after a successful login returned the listing, its
\* only request carrying the issued token.
C17_Witness ==
    \E c \in Calls :
        /\ call[c].op = "get_device_properties" /\ call[c].afterLogin \in Tokens
        /\ call[c].pc = "done" /\ call[c].result = "list"
        /\ call[c].sent1 = call[c].afterLogin /\ call[c].sent1 = access_token
        /\ call[c].nReq = 1 /\ call[c].nRefresh = 0

\* C18: every operation logs in before its device request when the session
\* holds no access token, so no device request carries an absent token in its
\* Authorization header.  (Fails: the write operations go straight to
\* _post_request, which formats whatever access_token holds.)
C18_NoRequestWithoutToken ==
    \A c \in Calls : call[c].sent1 # None /\ call[c].sent2 # None

\* The answer to the last device request a call sent.
LastResponse(r) == IF r.nReq = 2 THEN r.r2 ELSE r.r1

\* C19: a write operation returns true exactly when its last datapoint POST
\* (the first request, or the single retry after a refresh) was accepted, and
\* false in every other outcome.  (Fails: set_device_status lets a non-aiohttp
\* exception of the retry escape, C9.)
C19_WriteResultIsAcceptance ==
    \A c \in Calls :
        LET r == call[c] IN
        (r.op \in WriteOps /\ r.pc = "done") =>
            r.result = IF r.nReq >= 1 /\ Accepted(r.op, LastResponse(r))
                       THEN "true" ELSE "false"

\* The wrappers that name their property themselves.
NamedWrappers == WrapperOps \ {"set_device_property"}

\* The request set_device_property(dsn, <the wrapper's property name>, value)
\* would send for the wrapper call that r records.
GenericRequestOf(r) ==
    RequestOf("set_device_property",
              [prop |-> PropertyOf(r.op, r.arg), val |-> r.arg.val])

C23_FailureKindReported ==
    \A c \in Calls :
        LET r == call[c] IN
        (r.op = "authenticate" /\ r.pc = "done" /\ r.loginOut \notin {"none", "ok"}) =>
            FlowError(r.result) = IF r.loginOut = "rejected" THEN "invalid_auth"
                                  ELSE "cannot_connect"

\* C24: refresh_access_token is entered only in the step that receives a 401
\* to the call's first request, and a second device request is sent only in a
\* call whose first request was answered 401 and that entered the refresh.
C24_RefreshOnlyOn401 ==
    [][\A c \in Calls :
         /\ call'[c].nRefresh > call[c].nRefresh =>
              /\ call[c].pc = "req1" /\ call[c].nRefresh = 0
              /\ call'[c].r1 = "s401"
         /\ (call'[c].nReq > call[c].nReq /\ call[c].nReq >= 1) =>
              /\ call'[c].r1 = "s401" /\ call'[c].nRefresh = 1
              /\ call'[c].nReq = 2]_vars

\* C24 witness: a call whose first request was answered 401 has refreshed and
\* sent its second request.
C24_Witness ==
    \E c \in Calls :
        /\ call[c].r1 = "s401" /\ call[c].nRefresh = 1
        /\ call[c].rfKind = "ok" /\ call[c].pc = "req2" /\ call[c].nReq = 2

\* C25: in one login attempt the step requests go out in order, each once, and
\* the request of step k+1 only after step k's response gave its values; a
\* failure at a step is the attempt's last response.  (Fails: a step-1 or
\* step-6 Location without the parameter is followed by the next step, C14/C26.)
C25_StepsInOrder ==
    \A c \in Calls :
        LET r == call[c] IN
        /\ r.nStepReq <= 8
        /\ Len(r.outs) \in {r.nStepReq - 1, r.nStepReq} \cap (0..8)
        /\ \A k \in 1..Len(r.outs) : k < r.nStepReq => r.outs[k] = "ok"

\* C26: a step-6 response without a Location header, or whose Location has no
\* `code` parameter, ends the attempt at step 6: no request of step 7 or 8 is
\* sent.  (Fails for the Location without `code`: get_query_param returns None
\* and step 7 is sent with it.)
C26_MissingCodeStops ==
    \A c \in Calls :
        LET r == call[c] IN
        OutcomeOf(r, 6) \in {"parse", "noparam"} =>
            /\ r.nStepReq = 6 /\ r.pc = "done"
            /\ r.result \in LoginFailedResults

\* C29: a refresh that holds a refresh_token sends one request to the refresh
\* endpoint, never a second one, and after a 200 answer carrying an
\* access_token the call starts no login from the refresh.
C29_SingleRefreshRequest ==
    \A c \in Calls :
        LET r == call[c] IN
        /\ r.nRefreshReq <= r.nRefresh
        /\ (r.nRefresh = 1 /\ Truthy(r.rfHeld)) => r.nRefreshReq = 1
        /\ r.rfKind = "ok" => FallbackLogins(r) = 0 /\ r.pc \in {"req2", "done"}

\* C29 witness: a refresh answered 200 with a token was followed directly by
\* the retry; the call sent one refresh request and ran no login.
C29_Witness ==
    \E c \in Calls :
        /\ call[c].rfKind = "ok" /\ call[c].rfAcc \in Tokens
        /\ call[c].nRefreshReq = 1 /\ call[c].nLogin = 0
        /\ call[c].pc = "req2"

\* C27: every context value a login attempt sends in steps 3 to 8 was obtained
\* from a response of that same attempt, and while an attempt runs its locals
\* hold nothing from another attempt.
C27_ContextNotReused ==
    \A c \in Calls :
        LET r == call[c] IN
        /\ \A u \in r.uses : u[3] = r.nLogin /\ u[2] \in 3..8
        /\ \A h \in r.held : h[2] = r.nLogin

\* C27 witness: two login attempts interleave on the instance.  One is the
\* second attempt of its call (the fallback of its refresh, after its lazy
\* login) and has sent step 8 with an identity token obtained in that second
\* attempt; the other has sent step 5 with its own context.
C27_Witness ==
    \E c \in Calls : \E d \in Calls \ {c} :
        /\ call[c].pc = "login" /\ call[c].nLogin = 2 /\ call[c].nAuth = 1
        /\ <<"idp_token", 8, 2>> \in call[c].uses
        /\ {<<"context", 5, 2>>, <<"context", 6, 2>>} \subseteq call[c].uses
        /\ call[d].pc = "login" /\ call[d].step = 5
        /\ <<"context", 5, call[d].nLogin>> \in call[d].uses

\* Every context value is assigned from the response of exactly one step.
ProducedOnce ==
    \A n \in ContextNames : Cardinality({s \in 1..8 : n \in Produced(s)}) = 1

\* The step whose response yields each value.
Producer == [n \in ContextNames |-> CHOOSE s \in 1..8 : n \in Produced(s)]

\* The <<name, step>> pairs of what the call's latest attempt has sent.
SentPairs(r) == {<<u[1], u[2]>> : u \in r.uses}

\* C28 as stated: each context value is produced by exactly one step and
\* consumed by exactly one later step, and none is held once the attempt is over.
C28_ProducedOnceConsumedOnce ==
    /\ ProducedOnce
    /\ \A c \in Calls :
         LET r == call[c] IN
         /\ r.pc # "login" => r.held = NoContext
         /\ \A p \in SentPairs(r) : p[2] > Producer[p[1]]
         /\ \A p \in SentPairs(r) : \A q \in SentPairs(r) : p[1] = q[1] => p = q
         /\ r.loginOut = "ok" => {p[1] : p \in SentPairs(r)} = ContextNames

\* The steps that send each context value: two for context, ucid, gmid,
\* login_token and the user id, one for every other value.
DataFlow ==
    {<<"ucid", 3>>, <<"ucid", 4>>, <<"gmid", 3>>, <<"gmid", 4>>,
     <<"login_token", 4>>, <<"login_token", 6>>,
     <<"context", 5>>, <<"context", 6>>, <<"user_uid", 5>>, <<"user_uid", 6>>,
     <<"user_uid_signature", 5>>, <<"user_signature_timestamp", 5>>,
     <<"signature", 6>>, <<"gmid_ticket", 6>>, <<"code", 7>>, <<"idp_token", 8>>}

\* C28 as amended: each context value is produced by exactly one step and
\* consumed only by later steps of the attempt, by two of them for context,
\* ucid, gmid, login_token and the user id and by one for every other value;
\* none is held once the attempt is over.
C28_ProducedOnceConsumedLater ==
    /\ ProducedOnce
    /\ \A c \in Calls :
         LET r == call[c] IN
         /\ r.pc # "login" => r.held = NoContext
         /\ \A p \in SentPairs(r) : p[2] > Producer[p[1]]
         /\ SentPairs(r) \subseteq DataFlow
         /\ r.loginOut = "ok" => SentPairs(r) = DataFlow

\* C28 witness: a login has issued its token pair; the context was sent in
\* steps 5 and 6, the identity token in step 8, and nothing is held any more.
C28_Witness ==
    \E c \in Calls :
        /\ call[c].loginOut = "ok" /\ call[c].issAcc \in Tokens
        /\ call[c].pc # "login" /\ call[c].held = NoContext
        /\ {<<"context", 5>>, <<"context", 6>>, <<"idp_token", 8>>}
               \subseteq SentPairs(call[c])

\* C21: with two calls interleaving on one instance, the retry of each call
\* carries the access token the shared instance holds in the step that sends
\* the retry, whatever the other call's refresh or login stored before.
C21_RetryCarriesSessionToken ==
    [][\A c \in Calls :
         (call[c].pc # "req2" /\ call'[c].pc = "req2") =>
             /\ call'[c].sent2 = access_token'
             /\ call'[c].sent2 \in Tokens]_vars

\* C21 witness: both calls were answered 401 and refreshed; both retries are in
\* flight with different tokens, and the instance holds the token of the retry
\* sent last, which replaced the one the other call had stored.
C21_Witness ==
    \E c \in Calls : \E d \in Calls \ {c} :
        /\ call[c].r1 = "s401" /\ call[d].r1 = "s401"
        /\ call[c].pc = "req2" /\ call[d].pc = "req2"
        /\ call[c].sent2 # call[d].sent2
        /\ call[d].sent2 = access_token

\* The calls that are inside refresh_access_token or _get_new_access_token.
Authenticating == {c \in Calls : call[c].pc \in {"login", "refresh"}}

\* C22: the calls on one instance are serialized around refresh and login: at
\* no time are two refresh or login executions of the session in flight.
\* (Fails: nothing in the integration holds a lock around them.)
C22_RefreshSerialized == Cardinality(Authenticating) <= 1

\* C30: whenever a write awaited by an entity command handler returned
\* success, the handler has requested a refresh from the coordinator by the
\* time it returns, in climate.set_hvac_mode also when the turn-on write
\* succeeded and the mode write failed.  (Fails in exactly that case.)
C30_SuccessRequestsRefresh ==
    (entity.pc = "done" /\ (entity.w1 = "true" \/ entity.w2 = "true")) =>
        entity.refresh

\* The names of the property entries of a listing.
NamesIn(resp) == {resp[k].name : k \in {j \in 1..Len(resp) : resp[j].kind = "property"}}

\* The value of the last property entry of the listing that is named n.
LastValue(resp, n) ==
    LET ks == {k \in 1..Len(resp) : resp[k].kind = "property" /\ resp[k].name = n}
    IN  resp[CHOOSE k \in ks : \A j \in ks : j <= k].value

\* C31: when get_device_properties failed (it returned [] or {} instead of the
\* listing), _async_update_data completes with the empty snapshot and does not
\* raise UpdateFailed.
C31_FailedReadGivesEmptySnapshot ==
    coordinator.result \in {"empty_list", "empty_dict", "raise"} =>
        /\ ~coordinator.raised
        /\ coordinator.data = NoData

\* C31 witness: a poll whose lazy login failed replaced a non-empty snapshot by
\* the empty one.
C31_Witness ==
    /\ coordinator.pc = "idle"
    /\ coordinator.result = "empty_dict"
    /\ coordinator.prev # NoData
    /\ coordinator.data = NoData
    /\ ~coordinator.raised

\* C32: the snapshot a poll returns maps exactly the names of the property
\* entries of that poll's response to their values in it; a name of the
\* earlier snapshot that the response does not list is not in the new one.
C32_SnapshotFromResponseOnly ==
    (coordinator.result # "none" /\ ~coordinator.raised) =>
        /\ DOMAIN coordinator.data = NamesIn(coordinator.response)
        /\ \A n \in DOMAIN coordinator.data :
               coordinator.data[n] = LastValue(coordinator.response, n)
        /\ \A n \in DOMAIN coordinator.prev \ NamesIn(coordinator.response) :
               n \notin DOMAIN coordinator.data

\* C32 witness: a poll returned a snapshot with one name while the earlier
\* snapshot had another name, which is gone.
C32_Witness ==
    /\ coordinator.result = "list"
    /\ ~coordinator.raised
    /\ coordinator.data # NoData
    /\ \E n \in DOMAIN coordinator.prev : n \notin DOMAIN coordinator.data

\* C33: a setup whose authenticate() failed or whose device list was empty
\* returned False, made no coordinator, stored nothing under the entry id and
\* forwarded no platform setup.
C33_SetupTerminalFailures ==
    (/\ flow.kind = "setup"
     /\ flow.pc = "done"
     /\ \/ flow.auth = "false"
        \/ flow.devices # "none" /\ flow.ndev = 0) =>
        /\ flow.returned = "false"
        /\ flow.created = 0
        /\ ~flow.stored
        /\ ~flow.forwarded

\* C33 witness: a setup that authenticated, got an empty device list and
\* returned False.
C33_Witness ==
    /\ flow.kind = "setup"
    /\ flow.pc = "done"
    /\ flow.auth = "true"
    /\ flow.devices = "list" /\ flow.ndev = 0
    /\ flow.returned = "false"

\* C38: the config step creates an entry only after authenticate() returned
\* True and get_devices() a non-empty list; after a failed authentication it
\* shows the form with invalid_auth, after an empty device list with
\* no_devices, and creates no entry in either case.
C38_EntryOnlyWithDevices ==
    (flow.kind = "config" /\ flow.pc = "done") =>
        /\ flow.entry => (flow.auth = "true" /\ flow.ndev > 0)
        /\ flow.auth = "false" =>
               (flow.returned = "form" /\ flow.error = "invalid_auth" /\ ~flow.entry)
        /\ (flow.auth = "true" /\ flow.ndev = 0) =>
               (flow.returned = "form" /\ flow.error = "no_devices" /\ ~flow.entry)

\* C38 witness: a config step whose login was rejected showed invalid_auth.
C38_Witness ==
    /\ flow.kind = "config"
    /\ flow.pc = "done"
    /\ flow.auth = "false"
    /\ flow.error = "invalid_auth"
    /\ ~flow.entry

\* C37: in climate.set_hvac_mode with a mode other than OFF and a snapshot
\* that says the device is off, the first write is the turn-on write and the
\* mode write follows it only after it returned true; with OFF the one write
\* sent is the status write with 2 and no mode write is sent.
C37_TurnOnBeforeMode ==
    entity.h = "climate.set_hvac_mode" =>
        /\ (entity.mode # "off" /\ entity.seen = 2) =>
               /\ entity.sent[1] = <<"set_device_status", 1>>
               /\ Len(entity.sent) <= 2
               /\ Len(entity.sent) = 2 =>
                      /\ entity.w1 = "true"
                      /\ entity.sent[2] = <<"set_device_mode", DeviceMode(entity.mode)>>
               /\ (entity.pc = "done" /\ entity.w1 # "true") => Len(entity.sent) = 1
        /\ entity.mode = "off" => entity.sent = << <<"set_device_status", 2>> >>

\* C37 witness: the turn-on write of a command for another mode than OFF
\* failed and the handler returned after that one write.
C37_Witness ==
    /\ entity.h = "climate.set_hvac_mode"
    /\ entity.mode # "off" /\ entity.seen = 2
    /\ entity.pc = "done"
    /\ entity.w1 = "false"
    /\ Len(entity.sent) = 1

\* C36: when two device calls on the one session were both answered 401 and
\* both have completed, the session holds a non-empty access token if the
\* refresh of at least one of them returned a token.  (Fails: the call whose
\* refresh failed stores None over the token the other call stored.)
C36_ValidTokenNotLost ==
    (/\ \A c \in Calls : call[c].pc = "done" /\ call[c].r1 = "s401"
     /\ \E c \in Calls : call[c].refreshed \in Tokens) =>
        Truthy(access_token)

\* C35: whatever state the session was left in, a get_device_properties call
\* made while the upstream accepts the credentials and answers correctly
\* returns the device's property listing.
C35_SessionRecovers ==
    \A c \in Calls :
        (call[c].sound /\ call[c].pc = "done") => call[c].result = "list"

\* C35 witness: the call found a stale access token and a stale refresh token,
\* was answered 401, failed to refresh, logged in and got the listing.
C35_Witness ==
    \E c \in Calls :
        /\ call[c].sound /\ call[c].pc = "done"
        /\ call[c].r1 = "s401"
        /\ call[c].rfKind = "non200"
        /\ call[c].loginOut = "ok"
        /\ call[c].result = "list"

\* C34: every operation invoked returns to its caller, and never has a call
\* sent more than two device requests, more than one refresh request, or made
\* more than two login attempts or more than eight requests in one attempt.
C34_OperationsTerminate ==
    /\ [](\A c \in Calls :
             /\ call[c].nReq <= 2
             /\ call[c].nRefreshReq <= 1
             /\ call[c].nLogin <= 2
             /\ call[c].nStepReq <= 8)
    /\ \A c \in Sequential :
           (call[c].pc \in {"login", "refresh", "req1", "req2"}) ~> (call[c].pc = "done")

\* C34 witness: a read returned after its lazy login, a 401, a refused refresh
\* request, the fallback login and the retry.
C34_Witness ==
    \E c \in Calls :
        /\ call[c].pc = "done"
        /\ call[c].nReq = 2
        /\ call[c].nRefreshReq = 1
        /\ call[c].nLogin = 2

====
